---- MODULE Spec2Model ----
(***************************************************************************)
(* Model of lib/reporter.js, the wdio spec reporter: an event emitter that *)
(* accumulates per-worker state from runner/suite/test events and renders  *)
(* text to console.log, either per event (real-time mode) or once per      *)
(* worker at runner:end (batch mode).                                      *)
(*                                                                         *)
(* A JavaScript string is modelled as a sequence of tokens; "\n" is the    *)
(* newline token and console.log(s) writes s followed by a newline.        *)
(***************************************************************************)
EXTENDS Integers, Sequences, FiniteSets, TLC

\* --------------------------------------------------------------- bounds
MaxWorkers == 2
MaxSuites == 2
MaxTests == 2
MaxCalls == 4
MaxCount == 2
MaxEvents == 10
MaxOverlapEvents == 7

\* ------------------------------------------------------ JavaScript values
\* undefined, for a value that is otherwise a cid or a tri-state flag
Undefined == "undefined"
\* undefined, for a value that is otherwise a string
UNDEF == <<"<undefined>">>
NL == "\n"
SP == " "

\* truthiness of a string-or-undefined value
Truthy(s) == s # UNDEF /\ s # <<>>

\* a || b
Or(a, b) == IF Truthy(a) THEN a ELSE b

\* a value interpolated into a template literal or concatenated with +
Str(s) == IF s = UNDEF THEN <<"undefined">> ELSE s

\* String.prototype.indexOf on token strings: first 0-based position, or -1.
RECURSIVE IndexFrom(_, _, _)
IndexFrom(s, needle, i) ==
    IF i + Len(needle) > Len(s) THEN -1
    ELSE IF SubSeq(s, i + 1, i + Len(needle)) = needle THEN i
    ELSE IndexFrom(s, needle, i + 1)

IndexOf(s, needle) == IndexFrom(s, needle, 0)

IsSpace(t) == t \in {SP, NL, "   ", "    "}

\* String.prototype.trim
RECURSIVE Trim(_)
Trim(s) ==
    IF s = <<>> THEN s
    ELSE IF IsSpace(Head(s)) THEN Trim(Tail(s))
    ELSE IF IsSpace(s[Len(s)]) THEN Trim(SubSeq(s, 1, Len(s) - 1))
    ELSE s

RECURSIVE Concat(_)
Concat(ss) == IF ss = <<>> THEN <<>> ELSE Head(ss) \o Concat(Tail(ss))

\* ------------------------------------------------------------ the inputs
Cids == {ToString(i) : i \in 0 .. (MaxWorkers - 1)}

BeforeAllMarker == "\"before all\""

\* the titles a suite can have: an ordinary one, or the one of a "before all" hook
Titles == {"suite", BeforeAllMarker}

\* a suite's uid as the engine builds it: its title followed by a counter
UidOf(title, n) == <<title, ToString(n)>>

\* the title of the suite with this uid
SuiteTitle(uid) == uid[1] \o " " \o uid[2]

\* the config argument of the constructor: absent, serial, or parallel
Configs == {[defined |-> FALSE, maxInstances |-> 0],
            [defined |-> TRUE, maxInstances |-> 1],
            [defined |-> TRUE, maxInstances |-> 2]}

NoCaps == [deviceName |-> UNDEF, browserName |-> UNDEF, browser |-> UNDEF,
           version |-> UNDEF, platformVersion |-> UNDEF, browser_version |-> UNDEF,
           os |-> UNDEF, os_version |-> UNDEF, platform |-> UNDEF,
           platformName |-> UNDEF, app |-> UNDEF]

\* stats.runners[cid].capabilities: worker 0 is a desktop browser, the others a device
CapsOf(c) ==
    IF c = "0"
    THEN [NoCaps EXCEPT !.browserName = <<"chrome">>, !.version = <<"100">>,
                        !.platform = <<"Windows">>]
    ELSE [NoCaps EXCEPT !.deviceName = <<"iPhone">>, !.os = <<"iOS">>,
                        !.os_version = <<"15">>, !.browserName = <<"Safari">>]

\* stats.runners[cid].sessionID
SessionOf(c) == "session-" \o c

\* stats.runners[cid].config.host: worker 0 runs on Sauce Labs, worker 1 locally,
\* any further worker has no host configured
HostOf(c) ==
    IF c = "0" THEN <<"ondemand", ".", "saucelabs", ".", "com">>
    ELSE IF c = "1" THEN <<"localhost">>
    ELSE UNDEF

\* runner.specs rendered in a template literal
SpecsOf(c) == "/specs/" \o c \o ".js"

\* spec._duration in milliseconds, as the stats collaborator reports it: worker 0
\* ran for a minute and a half, the others for no measurable time
DurationOf(c) == IF c = "0" THEN 90000 ELSE 0

\* test.err.stack, as lines: worker 0's errors carry a stack, the others' none
StackOf(c) == IF c = "0" THEN <<"Error: boom", "    at it">> ELSE <<>>

\* ------------------------------------------------------------- rendering
\* baseReporter.color(type, text): the theme wraps the text in colour codes
Color(type, text) == <<"{" \o type \o "}">> \o text \o <<"{/}">>

\* baseReporter.symbols.ok
SymbolOk == "ok"

\* round(n / d), halves up
RoundDiv(n, d) == (2 * n + d) \div (2 * d)

\* shortEnglishHumanizer(duration, DURATION_OPTIONS): minutes and seconds, rounded,
\* no space between number and unit
Humanize(duration) ==
    LET total == RoundDiv(duration, 1000)
        m == total \div 60
        sec == total % 60
    IN  IF m > 0 /\ sec > 0 THEN <<ToString(m), "m", ", ", ToString(sec), "s">>
        ELSE IF m > 0 THEN <<ToString(m), "m">>
        ELSE <<ToString(sec), "s">>

\* Array(n).join('    ')
ArrayJoin(n) == [i \in 1 .. (n - 1) |-> "    "]

\* indent(cid, uid), given this.suiteIndents; the depth of an unknown uid is undefined
\* and Array(undefined) is a one-element array
indent(si, cid, uid) ==
    IF uid \notin DOMAIN si[cid] THEN <<>>
    ELSE IF si[cid][uid] = 0 THEN <<>>
    ELSE ArrayJoin(si[cid][uid])

getSymbolSkipsCount(ec, state) ==
    CASE state = "pass" -> [ret |-> <<SymbolOk>>, errorCount |-> ec]
      [] state = "pending" -> [ret |-> <<"-">>, errorCount |-> ec]
      [] state = "fail" -> [ret |-> <<ToString(ec), ")">>, errorCount |-> ec]
      [] OTHER -> [ret |-> <<"?">>, errorCount |-> ec]

\* getSymbol(state), given this.errorCount: the symbol and the new this.errorCount
getSymbol(ec, state) ==
    CASE state = "pass" -> [ret |-> <<SymbolOk>>, errorCount |-> ec]
      [] state = "pending" -> [ret |-> <<"-">>, errorCount |-> ec]
      [] state = "fail" -> [ret |-> <<ToString(ec + 1), ")">>, errorCount |-> ec + 1]
      [] OTHER -> [ret |-> <<"?">>, errorCount |-> ec]

getColor(state) ==
    CASE state \in {"pass", "passing"} -> "green"
      [] state = "pending" -> "pending"
      [] state \in {"fail", "failing"} -> "fail"
      [] OTHER -> "null"

\* String.prototype.replace(pattern, '') with a string pattern: the first occurrence
Remove(s, tok) ==
    LET i == IndexOf(s, <<tok>>)
    IN  IF i = -1 THEN s ELSE SubSeq(s, 1, i) \o SubSeq(s, i + 2, Len(s))

getBrowserCombo(caps, verbose) ==
    LET device == caps.deviceName
        browser == Or(caps.browserName, caps.browser)
        version == Or(Or(caps.version, caps.platformVersion), caps.browser_version)
        platform == IF Truthy(caps.os)
                    THEN Str(caps.os) \o <<SP>> \o Str(caps.os_version)
                    ELSE Or(caps.platform, caps.platformName)
        program == Or(Remove(Or(caps.app, <<>>), "sauce-storage:"), caps.browserName)
        executing == IF Truthy(program) THEN <<"executing ">> \o Str(program) ELSE <<>>
    IN  IF Truthy(device)
        THEN IF ~verbose
             THEN Str(device) \o <<SP>> \o Str(platform) \o <<SP>> \o Str(version)
             ELSE Trim(Str(device) \o <<" on ">> \o Str(platform) \o <<SP>>
                       \o Str(version) \o <<SP>> \o executing)
        ELSE IF ~verbose
             THEN Trim(Str(browser) \o <<SP>> \o Or(version, <<>>) \o <<SP>>
                       \o Or(platform, <<>>))
             ELSE Str(browser)
                  \o (IF Truthy(version) THEN <<" (v">> \o version \o <<")">> ELSE <<>>)
                  \o (IF Truthy(platform) THEN <<" on ">> \o platform ELSE <<>>)

\* the characters of a token string, as one token
RECURSIVE Join(_)
Join(s) == IF s = <<>> THEN "" ELSE Head(s) \o Join(Tail(s))

\* `[${this.getBrowserCombo(results.capabilities, false)} #${cid}]`, kept as one token
PrefaceOf(c) == <<"[" \o Join(getBrowserCombo(CapsOf(c), FALSE)) \o " #" \o c \o "]">>

\* getTestResult(cid, uid, test, preface): the text and the new this.errorCount
getTestResult(si, ec, cid, uid, test, preface) ==
    LET sym == getSymbol(ec, test.state)
    IN  [ret |-> Str(preface) \o <<"   ">> \o indent(si, cid, uid)
                 \o Color(getColor(test.state), sym.ret) \o <<SP, test.title>>,
         errorCount |-> sym.errorCount]

\* the loop over spec.tests of getResultList
RECURSIVE TestLines(_, _, _, _, _, _)
TestLines(si, ec, cid, uid, tests, preface) ==
    IF tests = <<>> THEN [ret |-> <<>>, errorCount |-> ec]
    ELSE IF Head(tests).state = ""
    THEN TestLines(si, ec, cid, uid, Tail(tests), preface)
    ELSE LET one == getTestResult(si, ec, cid, uid, Head(tests), preface)
             rest == TestLines(si, one.errorCount, cid, uid, Tail(tests), preface)
         IN  [ret |-> one.ret \o <<NL>> \o rest.ret, errorCount |-> rest.errorCount]

RECURSIVE getResultListNoSkip(_, _, _, _, _)
getResultListNoSkip(si, ec, cid, suites, preface) ==
    IF suites = <<>> THEN [ret |-> <<>>, errorCount |-> ec]
    ELSE LET spec == Head(suites)
             head == preface \o <<SP>> \o indent(si, cid, spec.uid) \o <<spec.title, NL>>
             tests == TestLines(si, ec, cid, spec.uid, spec.tests, preface)
             rest == getResultListNoSkip(si, tests.errorCount, cid, Tail(suites), preface)
         IN  [ret |-> head \o tests.ret \o Trim(preface) \o <<NL>> \o rest.ret,
              errorCount |-> rest.errorCount]

RECURSIVE getResultListKeepsTests(_, _, _, _, _)
getResultListKeepsTests(si, ec, cid, suites, preface) ==
    IF suites = <<>> THEN [ret |-> <<>>, errorCount |-> ec]
    ELSE LET spec == Head(suites)
             head == IF IndexOf(spec.uid, <<BeforeAllMarker>>) # 0
                     THEN preface \o <<SP>> \o indent(si, cid, spec.uid)
                          \o <<spec.title, NL>>
                     ELSE <<>>
             tests == TestLines(si, ec, cid, spec.uid, spec.tests, preface)
             rest == getResultListKeepsTests(si, tests.errorCount, cid, Tail(suites), preface)
         IN  [ret |-> head \o tests.ret \o Trim(preface) \o <<NL>> \o rest.ret,
              errorCount |-> rest.errorCount]

\* getResultList(cid, suites, preface): the text and the new this.errorCount
RECURSIVE getResultList(_, _, _, _, _)
getResultList(si, ec, cid, suites, preface) ==
    IF suites = <<>> THEN [ret |-> <<>>, errorCount |-> ec]
    ELSE LET spec == Head(suites)
         IN  IF IndexOf(spec.uid, <<BeforeAllMarker>>) = 0
             THEN getResultList(si, ec, cid, Tail(suites), preface)
             ELSE LET head == IF IndexOf(spec.uid, <<BeforeAllMarker>>) # 0
                              THEN preface \o <<SP>> \o indent(si, cid, spec.uid)
                                   \o <<spec.title, NL>>
                              ELSE <<>>
                      tests == TestLines(si, ec, cid, spec.uid, spec.tests, preface)
                      rest == getResultList(si, tests.errorCount, cid, Tail(suites), preface)
                  IN  [ret |-> head \o tests.ret \o Trim(preface) \o <<NL>> \o rest.ret,
                       errorCount |-> rest.errorCount]

\* the states object of runner:start, in the order of its keys
StatesOf(r) == << <<"passing", r.passing>>, <<"pending", r.pending>>,
                  <<"failing", r.failing>> >>

RECURSIVE SummaryLoop(_, _, _, _)
SummaryLoop(states, duration, preface, displayedDuration) ==
    IF states = <<>> THEN <<>>
    ELSE LET state == Head(states)[1]
             testCount == Head(states)[2]
             testDuration == IF ~displayedDuration
                             THEN <<" (">> \o Humanize(duration) \o <<")">>
                             ELSE <<>>
         IN  IF testCount = 0
             THEN SummaryLoop(Tail(states), duration, preface, displayedDuration)
             ELSE Str(preface) \o <<SP>>
                  \o Color(getColor(state), <<ToString(testCount)>>)
                  \o <<SP>> \o Color(getColor(state), <<state>>)
                  \o testDuration \o <<NL>>
                  \o SummaryLoop(Tail(states), duration, preface, TRUE)

getSummaryDurationOnEveryLine(states, duration, preface) ==
    Concat([i \in 1 .. Len(states) |-> SummaryLoop(<<states[i]>>, duration, preface, FALSE)])

\* getSummary(states, duration, preface)
getSummary(states, duration, preface) == SummaryLoop(states, duration, preface, FALSE)

\* the stack of an error, one prefixed line per line of the trace
RECURSIVE StackLines(_, _)
StackLines(stack, preface) ==
    IF stack = <<>> THEN <<>>
    ELSE preface \o <<SP>> \o Color("error stack", <<Head(stack)>>)
         \o (IF Len(stack) > 1 THEN <<NL>> ELSE <<>>)
         \o StackLines(Tail(stack), preface)

\* the forEach of getFailureList, from index i
RECURSIVE FailureLoop(_, _, _)
FailureLoop(failures, i, preface) ==
    IF i > Len(failures) THEN <<>>
    ELSE LET test == failures[i]
             title == IF test.parent # UNDEF
                      THEN Str(test.parent) \o <<SP, test.title>>
                      ELSE <<test.title>>
         IN  Trim(preface) \o <<NL>>
             \o preface \o <<SP>>
             \o Color("error title", <<ToString(i), ") ">> \o title \o <<":">>) \o <<NL>>
             \o preface \o <<SP>> \o Color("error message", <<test.err.message>>) \o <<NL>>
             \o (IF test.err.stack # <<>>
                 THEN StackLines(test.err.stack, preface) \o <<NL>>
                 ELSE preface \o <<SP>>
                      \o Color("error stack", <<"no stack available">>) \o <<NL>>)
             \o FailureLoop(failures, i + 1, preface)

getFailureList(failures, preface) == FailureLoop(failures, 1, preface)

SauceHost == <<"saucelabs", ".", "com">>

JobLinkText(sessionID, preface) ==
    Trim(preface) \o <<NL>> \o preface
    \o <<" Check out job at https://saucelabs.com/tests/", sessionID, NL>>

getJobLinkAnyHost(host, sessionID, preface) ==
    IF ~Truthy(host) THEN <<>> ELSE JobLinkText(sessionID, preface)

\* getJobLink(results, preface), with results.config.host and results.sessionID
getJobLink(host, sessionID, preface) ==
    IF ~Truthy(host) THEN <<>>
    ELSE IF IndexOf(host, SauceHost) > -1 THEN JobLinkText(sessionID, preface)
    ELSE <<>>

\* getSuitesSummary(specCount)
getSuitesSummary(specCount) ==
    <<NL, NL, "==================================================================", NL,
      "Number of specs: ", ToString(specCount)>>

\* ----------------------------------------------------------------- state
VARIABLES
    realtime,      \* this.realtime
    errorCount,    \* this.errorCount
    indents,       \* this.indents: cid -> running depth
    suiteIndents,  \* this.suiteIndents: cid -> uid -> depth
    specs,         \* this.specs: cid -> runner.specs
    results,       \* this.results: cid -> {passing, pending, failing}
    context,       \* this.context: runner, suite, headerPrinted, cid, preface
    out,           \* what console.log and the epilogue wrote, one entry per call
    lastError,     \* whether the handler of the last event threw
    statsRunners,  \* baseReporter.stats.runners: cid -> the spec's suites and duration
    failures,      \* baseReporter.stats.getFailures()
    phase,         \* the engine: each worker is idle, running or ended
    open,          \* the engine: each worker's stack of open suites
    delivered,     \* per worker, the test events delivered since its runner:start
    overlap,       \* whether two workers have ever been running at once
    ended,         \* whether the terminal end event was delivered
    call,          \* the last direct call of a rendering method and what it returned
    symbolCalls,   \* the direct calls of getSymbol so far, each with what it returned
    nCalls,        \* how many direct calls were made
    nEvents,       \* how many events the engine has delivered
    nSuites,       \* how many suites the engine has started, over all workers
    nTests         \* how many tests the engine has started or reported, over all workers

vars == <<realtime, errorCount, indents, suiteIndents, specs, results, context,
          out, lastError, statsRunners, failures, phase, open, delivered, overlap,
          ended, call, symbolCalls, nCalls, nEvents,
          nSuites, nTests>>

reporterVars == <<realtime, errorCount, indents, suiteIndents, specs, results,
                  context>>

Empty == [x \in {} |-> 0]
NoCall == [fn |-> "none"]

\* the constructor
Init ==
    /\ \E config \in Configs : realtime = (config.defined /\ config.maxInstances = 1)
    /\ errorCount = 0
    /\ indents = Empty
    /\ suiteIndents = Empty
    /\ specs = Empty
    /\ results = Empty
    /\ context = [runner |-> Undefined, suite |-> <<>>, headerPrinted |-> Undefined,
                  cid |-> Undefined, preface |-> UNDEF]
    /\ out = <<>>
    /\ lastError = "none"
    /\ statsRunners = Empty
    /\ failures = <<>>
    /\ phase = [c \in Cids |-> "idle"]
    /\ open = [c \in Cids |-> <<>>]
    /\ delivered = [c \in Cids |-> [pass |-> 0, pending |-> 0, fail |-> 0]]
    /\ overlap = FALSE
    /\ ended = FALSE
    /\ call = NoCall
    /\ symbolCalls = <<>>
    /\ nCalls = 0
    /\ nEvents = 0
    /\ nSuites = 0
    /\ nTests = 0

\* console.log(text) while handling event ev of worker c
Log(o, ev, c, text) == Append(o, [ev |-> ev, cid |-> c, text |-> text \o <<NL>>])

\* f with f[k] set to v, k added to its domain if absent
Put(f, k, v) == [x \in DOMAIN f \cup {k} |-> IF x = k THEN v ELSE f[x]]

\* getHeader(runner): what it assigns to this.context
getHeaderContext(ctx, rc) == [ctx EXCEPT !.cid = rc, !.preface = PrefaceOf(rc)]

\* getHeader(runner): what it returns
getHeader(sp, rc) ==
    LET preface == PrefaceOf(rc)
    IN  <<"------------------------------------------------------------------", NL>>
        \o preface \o <<" Session ID: ", SessionOf(rc), NL>>
        \o preface \o <<" Spec: ", sp[rc], NL>>
        \o preface \o <<" Running: ">> \o getBrowserCombo(CapsOf(rc), TRUE)

\* getSuiteHeader(suite)
getSuiteHeader(si, ctx, suite) ==
    Str(ctx.preface) \o <<SP, NL>> \o Str(ctx.preface) \o <<SP>>
    \o indent(si, ctx.cid, suite.uid) \o <<suite.title>>

\* stats.getFailures().filter(...) of getSuiteResult
FailuresOf(fails, c) == SelectSeq(fails, LAMBDA f : f.cid = c \/ c \in f.runner)

getSuiteResultKeepsCount(si, ec, ctx, sp, res, c, spec, fails) ==
    LET preface == PrefaceOf(c)
        list == getResultList(si, ec, c, spec.suites, preface)
    IN  IF Len(spec.suites) = 0
        THEN [ret |-> <<>>, errorCount |-> ec, context |-> ctx]
        ELSE [ret |-> getHeader(sp, c) \o <<NL>> \o preface \o <<NL>>
                      \o list.ret
                      \o preface \o <<NL>>
                      \o getSummary(StatesOf(res[c]), spec.duration, preface)
                      \o getFailureList(FailuresOf(fails, c), preface)
                      \o getJobLink(HostOf(c), SessionOf(c), preface)
                      \o preface \o <<NL>>,
              errorCount |-> list.errorCount,
              context |-> getHeaderContext(ctx, c)]

\* getSuiteResult(runner): the text, the new this.errorCount and this.context
getSuiteResult(si, ec, ctx, sp, res, c, spec, fails) ==
    LET preface == PrefaceOf(c)
        list == getResultList(si, 0, c, spec.suites, preface)
    IN  IF Len(spec.suites) = 0
        THEN [ret |-> <<>>, errorCount |-> ec, context |-> ctx]
        ELSE [ret |-> getHeader(sp, c) \o <<NL>> \o preface \o <<NL>>
                      \o list.ret
                      \o preface \o <<NL>>
                      \o getSummary(StatesOf(res[c]), spec.duration, preface)
                      \o getFailureList(FailuresOf(fails, c), preface)
                      \o getJobLink(HostOf(c), SessionOf(c), preface)
                      \o preface \o <<NL>>,
              errorCount |-> list.errorCount,
              context |-> getHeaderContext(ctx, c)]

\* ---------------------------------------------------------------- events
\* the engine delivers a bounded number of events, fewer in a real-time run in which
\* workers have been running at the same time
Room == nEvents < (IF realtime /\ overlap THEN MaxOverlapEvents ELSE MaxEvents)

Running == {c \in Cids : phase[c] = "running"}

newResultsForAll(res, c) ==
    [x \in DOMAIN res \cup {c} |-> [passing |-> 0, pending |-> 0, failing |-> 0]]

\* this.results[runner.cid] = { passing: 0, pending: 0, failing: 0 }
newResults(res, c) == Put(res, c, [passing |-> 0, pending |-> 0, failing |-> 0])

\* on('runner:start'), for a worker the engine may start now
onRunnerStart(c) ==
    /\ Room
    /\ UNCHANGED <<nSuites, nTests>>
    /\ nEvents' = nEvents + 1
    /\ ~ended
    /\ phase[c] = "idle"
    /\ \E i \in 0 .. (MaxWorkers - 1) :
          c = ToString(i) /\ \A j \in 0 .. (i - 1) : phase[ToString(j)] # "idle"
    /\ phase' = [phase EXCEPT ![c] = "running"]
    /\ overlap' = (overlap \/ Running # {})
    /\ statsRunners' = Put(statsRunners, c, [suites |-> <<>>, duration |-> 0])
    /\ delivered' = [delivered EXCEPT ![c] = [pass |-> 0, pending |-> 0, fail |-> 0]]
    /\ suiteIndents' = Put(suiteIndents, c, Empty)
    /\ indents' = Put(indents, c, 0)
    /\ specs' = Put(specs, c, SpecsOf(c))
    /\ results' = newResults(results, c)
    /\ context' = IF realtime
                  THEN [context EXCEPT !.runner = c, !.headerPrinted = "false"]
                  ELSE context
    /\ lastError' = "none"
    /\ UNCHANGED <<realtime, errorCount, out, failures, open, ended, call, symbolCalls, nCalls>>

\* on('runner:start'); with maxInstances = 1 the launcher runs one worker at a time
RunnerStart(c) ==
    /\ realtime => Running = {}
    /\ onRunnerStart(c)

suiteStartDepthPostIncrement(ind, c) == ind[c]

\* ++this.indents[suite.cid]
suiteStartDepth(ind, c) == ind[c] + 1

headerNeededAlways(ctx) == TRUE

\* !this.context.headerPrinted
headerNeeded(ctx) == ctx.headerPrinted # "true"

\* on('suite:start')
SuiteStart(c, uid) ==
    /\ Room
    /\ nEvents' = nEvents + 1
    /\ phase[c] = "running"
    /\ uid \notin DOMAIN suiteIndents[c]
    /\ nSuites < MaxSuites
    /\ nSuites' = nSuites + 1
    /\ nTests' = nTests
    /\ open' = [open EXCEPT ![c] = Append(@, uid)]
    /\ statsRunners' = [statsRunners EXCEPT ![c].suites =
                          Append(@, [uid |-> uid, title |-> SuiteTitle(uid), parent |-> open[c],
                                     tests |-> <<>>])]
    /\ LET suite == [cid |-> c, uid |-> uid, title |-> SuiteTitle(uid)]
           depth == suiteStartDepth(indents, c)
           si == [suiteIndents EXCEPT ![c] = Put(@, uid, depth)]
           needHeader == headerNeeded(context)
           ctx1 == [context EXCEPT !.suite = <<suite>>]
           ctx2 == IF needHeader
                   THEN [getHeaderContext(ctx1, ctx1.runner) EXCEPT !.headerPrinted = "true"]
                   ELSE ctx1
           out1 == IF needHeader
                   THEN Log(out, "suite:start", c, getHeader(specs, ctx1.runner))
                   ELSE out
       IN  /\ indents' = [indents EXCEPT ![c] = depth]
           /\ suiteIndents' = si
           /\ IF ~realtime
              THEN /\ lastError' = "none"
                   /\ UNCHANGED <<context, out>>
              ELSE IF ctx2.cid \notin DOMAIN si
              THEN /\ lastError' = "TypeError"
                   /\ context' = ctx2
                   /\ out' = out1
              ELSE /\ lastError' = "none"
                   /\ context' = ctx2
                   /\ out' = Log(out1, "suite:start", c, getSuiteHeader(si, ctx2, suite))
    /\ UNCHANGED <<realtime, errorCount, specs, results, failures, phase,
                   delivered, overlap, ended, call, symbolCalls, nCalls>>

\* the stats collaborator's record of a reported test
RecordTest(su, state) == [su EXCEPT !.tests = Append(@, [title |-> "test", state |-> state])]

\* which counter each test event increments
CounterOf(state) ==
    CASE state = "pass" -> "passing"
      [] state = "pending" -> "pending"
      [] state = "fail" -> "failing"

testCountSwapped(res, c, state) ==
    [res EXCEPT ![c][CounterOf(IF state = "pending" THEN "pass"
                               ELSE IF state = "pass" THEN "pending" ELSE state)] = @ + 1]

\* this.results[test.cid].<counter>++
testCount(res, c, state) == [res EXCEPT ![c][CounterOf(state)] = @ + 1]

\* on('test:pending'), on('test:pass'), on('test:fail')
Test(c, state) ==
    /\ Room
    /\ nEvents' = nEvents + 1
    /\ phase[c] = "running"
    /\ open[c] # <<>>
    /\ nTests < MaxTests
    /\ nTests' = nTests + 1
    /\ nSuites' = nSuites
    /\ statsRunners' = [statsRunners EXCEPT ![c].suites =
          [i \in DOMAIN @ |->
              IF @[i].uid = open[c][Len(open[c])] THEN RecordTest(@[i], state) ELSE @[i]]]
    /\ failures' = IF state = "fail"
                   THEN Append(failures,
                               [cid |-> c, runner |-> {c}, title |-> "test",
                                parent |-> <<SuiteTitle(open[c][Len(open[c])])>>,
                                err |-> [message |-> "boom", stack |-> StackOf(c)]])
                   ELSE failures
    /\ delivered' = [delivered EXCEPT ![c][state] = @ + 1]
    /\ results' = testCount(results, c, state)
    /\ IF ~realtime
       THEN /\ lastError' = "none"
            /\ UNCHANGED <<errorCount, out>>
       ELSE IF context.suite = <<>> \/ context.suite[1].cid \notin DOMAIN suiteIndents
       THEN /\ lastError' = "TypeError"
            /\ UNCHANGED <<errorCount, out>>
       ELSE LET suite == context.suite[1]
                line == getTestResult(suiteIndents, errorCount, suite.cid, suite.uid,
                                      [title |-> "test", state |-> state], context.preface)
            IN  /\ lastError' = "none"
                /\ errorCount' = line.errorCount
                /\ out' = Log(out, "test:" \o state, c, line.ret)
    /\ UNCHANGED <<realtime, indents, suiteIndents, specs, context, phase, open,
                   overlap, ended, call, symbolCalls, nCalls>>

suiteEndKeepsDepth(ind, c) == ind

\* this.indents[suite.cid]--
suiteEndDepth(ind, c) == [ind EXCEPT ![c] = @ - 1]

\* on('suite:end')
SuiteEnd(c) ==
    /\ Room
    /\ UNCHANGED <<nSuites, nTests>>
    /\ nEvents' = nEvents + 1
    /\ phase[c] = "running"
    /\ open[c] # <<>>
    /\ open' = [open EXCEPT ![c] = SubSeq(@, 1, Len(@) - 1)]
    /\ indents' = suiteEndDepth(indents, c)
    /\ context' = IF realtime THEN [context EXCEPT !.suite = <<>>] ELSE context
    /\ lastError' = "none"
    /\ UNCHANGED <<realtime, errorCount, suiteIndents, specs, results, out,
                   statsRunners, failures, phase, delivered, overlap, ended, call, symbolCalls, nCalls>>

\* results.specs[stats.getSpecHash(runner)]: the spec of worker c under the hash of
\* runner rc's spec files; workers run different files
SpecByHash(st, c, rc) == IF rc = c THEN <<st[c]>> ELSE <<>>

\* on('runner:end')
RunnerEnd(c) ==
    /\ Room
    /\ UNCHANGED <<nSuites, nTests>>
    /\ nEvents' = nEvents + 1
    /\ phase[c] = "running"
    /\ open[c] = <<>>
    /\ phase' = [phase EXCEPT ![c] = "ended"]
    /\ statsRunners' = [statsRunners EXCEPT ![c].duration = DurationOf(c)]
    /\ IF ~realtime
       THEN LET r == getSuiteResult(suiteIndents, errorCount, context, specs, results, c,
                                    statsRunners'[c], failures)
            IN  /\ errorCount' = r.errorCount
                /\ context' = r.context
                /\ out' = Log(out, "runner:end", c, r.ret)
                /\ lastError' = "none"
       ELSE LET spec == SpecByHash(statsRunners', c, context.runner)
            IN  IF spec = <<>>
                THEN /\ lastError' = "TypeError"
                     /\ UNCHANGED <<errorCount, context, out>>
                ELSE /\ lastError' = "none"
                     /\ out' = Log(out, "runner:end", c,
                                   Str(context.preface) \o <<NL>> \o Str(context.preface)
                                   \o <<NL>>
                                   \o getSummary(StatesOf(results[c]), spec[1].duration,
                                                 context.preface)
                                   \o Str(context.preface) \o <<NL>>)
                     /\ UNCHANGED <<errorCount, context>>
    /\ UNCHANGED <<realtime, indents, suiteIndents, specs, results, failures, open,
                   delivered, overlap, ended, call, symbolCalls, nCalls>>

printsSummaryAlways(specCount) == TRUE

\* printSuitesSummary(): whether it prints for this many runners
printsSummary(specCount) == specCount # 1

\* baseReporter.epilogue.call(baseReporter)
Epilogue == <<"(epilogue)">>

\* on('end')
End ==
    /\ Room
    /\ UNCHANGED <<nSuites, nTests>>
    /\ nEvents' = nEvents + 1
    /\ ~ended
    /\ Running = {}
    /\ ended' = TRUE
    /\ LET specCount == Cardinality(DOMAIN statsRunners)
       IN  out' = IF printsSummary(specCount)
                  THEN Append(Log(out, "end", "", getSuitesSummary(specCount)),
                              [ev |-> "end", cid |-> "", text |-> Epilogue])
                  ELSE out
    /\ lastError' = "none"
    /\ UNCHANGED <<reporterVars, statsRunners, failures, phase, open, delivered, overlap,
                   call, symbolCalls, nCalls>>

Next ==
    \/ \E c \in Cids : RunnerStart(c)
    \/ \E c \in Cids, title \in Titles :
          SuiteStart(c, UidOf(title, Len(statsRunners[c].suites) + 1))
    \/ \E c \in Cids, state \in {"pass", "pending", "fail"} : Test(c, state)
    \/ \E c \in Cids : SuiteEnd(c)
    \/ \E c \in Cids : RunnerEnd(c)
    \/ End

Spec == Init /\ [][Next]_vars

\* ------------------------------------------ either mode, concurrent workers
NextOverlap ==
    \/ \E c \in Cids : onRunnerStart(c)
    \/ \E c \in Cids, title \in Titles :
          SuiteStart(c, UidOf(title, Len(statsRunners[c].suites) + 1))
    \/ \E c \in Cids, state \in {"pass", "pending", "fail"} : Test(c, state)
    \/ \E c \in Cids : SuiteEnd(c)
    \/ \E c \in Cids : RunnerEnd(c)
    \/ End

\* a reporter of either mode that receives the events of workers running at the same
\* time
SpecOverlap == Init /\ [][NextOverlap]_vars

\* ------------------------------------------- direct calls of the renderers
\* the states getSymbol is called with: the three known ones and an unknown one
SymbolStates == {"pass", "pending", "fail", "skipped"}

\* the counters getSummary is called with
CountStates == [passing : 0 .. MaxCount, pending : 0 .. MaxCount, failing : 0 .. MaxCount]

\* the durations getSummary is called with
RenderDurations == {0, 90000}

\* results.config.host: absent, empty, and hosts with and without the substring
Hosts == {UNDEF, <<>>, <<"localhost">>, <<"saucelabs", ".", "com">>,
          <<"ondemand", ".", "saucelabs", ".", "com", ":", "443">>,
          <<"saucelabs", ".", "org">>, <<"com", ".", "saucelabs">>}

eventVars == <<out, lastError, statsRunners, failures, phase, open, delivered, overlap,
               ended, nEvents, nSuites, nTests>>

CallGetSymbol(state) ==
    /\ nCalls < MaxCalls
    /\ nCalls' = nCalls + 1
    /\ LET r == getSymbol(errorCount, state)
       IN  /\ errorCount' = r.errorCount
           /\ call' = [fn |-> "getSymbol", state |-> state, ret |-> r.ret]
           /\ symbolCalls' = Append(symbolCalls, [state |-> state, ret |-> r.ret])
    /\ UNCHANGED <<realtime, indents, suiteIndents, specs, results, context, eventVars>>

CallGetSummary(states, duration, preface) ==
    /\ nCalls < MaxCalls
    /\ nCalls' = nCalls + 1
    /\ call' = [fn |-> "getSummary", states |-> states, duration |-> duration,
                preface |-> preface,
                ret |-> getSummary(StatesOf(states), duration, preface)]
    /\ UNCHANGED <<reporterVars, symbolCalls, eventVars>>

CallGetJobLink(host, preface) ==
    /\ nCalls < MaxCalls
    /\ nCalls' = nCalls + 1
    /\ call' = [fn |-> "getJobLink", host |-> host, preface |-> preface,
                ret |-> getJobLink(host, SessionOf("0"), preface)]
    /\ UNCHANGED <<reporterVars, symbolCalls, eventVars>>

\* the capabilities getBrowserCombo is called with: none at all, the two workers'
\* own, and desktop and device capabilities that leave optional fields out
RenderCaps ==
    {NoCaps, CapsOf("0"), CapsOf("1"),
     [NoCaps EXCEPT !.browserName = <<"chrome">>],
     [NoCaps EXCEPT !.browser = <<"firefox">>, !.os = <<"Windows">>],
     [NoCaps EXCEPT !.deviceName = <<"iPhone">>, !.platformName = <<"iOS">>],
     [NoCaps EXCEPT !.deviceName = <<"iPhone">>, !.platformName = <<"iOS">>,
                    !.platformVersion = <<"15">>,
                    !.app = <<"sauce-storage:", "app.zip">>]}

CallGetBrowserCombo(caps, verbose) ==
    /\ nCalls < MaxCalls
    /\ nCalls' = nCalls + 1
    /\ call' = [fn |-> "getBrowserCombo", caps |-> caps, verbose |-> verbose,
                ret |-> getBrowserCombo(caps, verbose)]
    /\ UNCHANGED <<reporterVars, symbolCalls, eventVars>>

RenderNext ==
    \/ \E state \in SymbolStates : CallGetSymbol(state)
    \/ \E states \in CountStates, duration \in RenderDurations :
          CallGetSummary(states, duration, PrefaceOf("0"))
    \/ \E host \in Hosts : CallGetJobLink(host, PrefaceOf("0"))
    \/ \E caps \in RenderCaps, verbose \in BOOLEAN : CallGetBrowserCombo(caps, verbose)

\* a freshly constructed reporter whose rendering methods are called directly
SpecRender == Init /\ [][RenderNext]_vars

\* ----------------------------------------------------- reading the output
\* the lines of a text from position start on, given the positions of its newlines
RECURSIVE LinesFrom(_, _, _)
LinesFrom(text, nls, start) ==
    LET after == {i \in nls : i >= start}
        nl == CHOOSE i \in after : \A j \in after : i <= j
    IN  IF after = {}
        THEN (IF start > Len(text) THEN <<>> ELSE <<SubSeq(text, start, Len(text))>>)
        ELSE <<SubSeq(text, start, nl - 1)>> \o LinesFrom(text, nls, nl + 1)

\* the lines of a text: what stands between its newlines, and after the last one
Lines(text) == LinesFrom(text, {i \in 1 .. Len(text) : text[i] = NL}, 1)

\* how often a token occurs in a text
Count(text, tok) == Len(SelectSeq(text, LAMBDA t : t = tok))

Has(text, tok) == \E i \in 1 .. Len(text) : text[i] = tok

\* what was written while handling events of kind ev for worker c
Written(ev, c) == SelectSeq(out, LAMBDA e : e.ev = ev /\ e.cid = c)

Started == {c \in Cids : phase[c] # "idle"}

\* ---------------------------------------------------------------- claims

\* C1: in both modes and after every prefix of the event stream, each started
\* worker's counters passing, pending and failing equal the numbers of test:pass,
\* test:pending and test:fail events delivered for that worker since its
\* runner:start, whatever other workers' events came in between.
C1_CountersMatchEvents ==
    /\ DOMAIN results = Started
    /\ \A c \in Started :
          /\ results[c].passing = delivered[c].pass
          /\ results[c].pending = delivered[c].pending
          /\ results[c].failing = delivered[c].fail

\* two workers are running at once and each has had test events of its own
C1_Witness ==
    /\ phase["0"] = "running" /\ phase["1"] = "running"
    /\ delivered["0"] = [pass |-> 1, pending |-> 0, fail |-> 0]
    /\ delivered["1"] = [pass |-> 0, pending |-> 0, fail |-> 1]

\* the suites of worker c, as the stats collaborator lists them
SuitesOf(c) == statsRunners[c].suites

\* C2: a worker's running indent depth is the number of its suite:start events not
\* yet matched by a suite:end (N after N starts, 0 again after the N ends), and
\* suites with the same enclosing suites have the same stored depth.
C2_DepthIsOpenSuites ==
    \A c \in Started :
       /\ indents[c] = Len(open[c])
       /\ \A i, j \in 1 .. Len(SuitesOf(c)) :
             SuitesOf(c)[i].parent = SuitesOf(c)[j].parent
             => suiteIndents[c][SuitesOf(c)[i].uid] = suiteIndents[c][SuitesOf(c)[j].uid]

\* a worker has started and ended two sibling suites: depth 0, both stored at depth 1
C2_Witness ==
    /\ "0" \in Started
    /\ Len(SuitesOf("0")) = 2
    /\ SuitesOf("0")[2].parent = <<>>
    /\ open["0"] = <<>>
    /\ indents["0"] = 0
    /\ suiteIndents["0"][SuitesOf("0")[2].uid] = 1

\* the number of calls with state 'fail' among the first i direct calls of getSymbol
FailsUpTo(i) == Len(SelectSeq(SubSeq(symbolCalls, 1, i), LAMBDA x : x.state = "fail"))

\* C3: on a fresh reporter the k-th call of getSymbol('fail') returns "k)", and a call
\* with 'pass', 'pending' or an unknown state returns its fixed glyph and leaves the
\* numbering as it was.
C3_FailSymbolsCount ==
    /\ errorCount = FailsUpTo(Len(symbolCalls))
    /\ \A i \in 1 .. Len(symbolCalls) :
          symbolCalls[i].ret =
             CASE symbolCalls[i].state = "fail" -> <<ToString(FailsUpTo(i)), ")">>
               [] symbolCalls[i].state = "pass" -> <<"ok">>
               [] symbolCalls[i].state = "pending" -> <<"-">>
               [] OTHER -> <<"?">>

\* fail, pass, unknown, fail: the second fail is numbered 2
C3_Witness ==
    /\ Len(symbolCalls) = 4
    /\ symbolCalls[1].state = "fail" /\ symbolCalls[2].state = "pass"
    /\ symbolCalls[3].state = "skipped" /\ symbolCalls[4] = [state |-> "fail", ret |-> <<"2", ")">>]

\* what the end event wrote
EndEntries == SelectSeq(out, LAMBDA e : e.ev = "end")

\* C4: the end event writes nothing when exactly one worker ran; when two or more
\* ran it writes the summary once, with 'Number of specs: N' for N the number of
\* workers that ran, and then the epilogue.
C4_SummaryForSeveralWorkers ==
    LET n == Cardinality(Started)
    IN  /\ ~ended => EndEntries = <<>>
        /\ ended /\ n = 1 => EndEntries = <<>>
        /\ ended /\ n >= 2 =>
              /\ Len(EndEntries) = 2
              /\ Count(EndEntries[1].text, "Number of specs: ") = 1
              /\ IndexOf(EndEntries[1].text, <<"Number of specs: ", ToString(n), NL>>)
                    = Len(EndEntries[1].text) - 3
              /\ EndEntries[2].text = <<"(epilogue)">>
              /\ out[Len(out)] = EndEntries[2]
              /\ out[Len(out) - 1] = EndEntries[1]

\* two workers ran and the run has ended
C4_Witness == ended /\ Cardinality(Started) = 2 /\ Len(EndEntries) = 2

\* C5: when no worker ran, the end event writes neither the summary nor the epilogue.
C5_NoSummaryWithoutWorkers == ended /\ Started = {} => EndEntries = <<>>

\* C6: the runner:end of a worker that ran no suite writes nothing, in either mode.
C6_NothingForEmptyWorker ==
    \A i \in 1 .. Len(out) : out[i].ev = "runner:end" => SuitesOf(out[i].cid) # <<>>

\* the titles a suite of the run can have
AllTitles == {SuiteTitle(UidOf(t, n)) : t \in Titles, n \in 1 .. MaxSuites}

StateNames == <<"passing", "pending", "failing">>

\* which part of a report a written line belongs to: 1 header, 2 suite/test tree,
\* 3 summary, 4 failure list, 5 job link, 0 a line that holds a preface or nothing
PartOf(line) ==
    IF line = <<>> THEN 0
    ELSE IF Len(line) = 1 \/ \E t \in {" Session ID: ", " Spec: ", " Running: "} : Has(line, t)
    THEN (IF Len(line) = 1 /\ Head(line) # "------------------------------------------------------------------"
          THEN 0 ELSE 1)
    ELSE IF line[Len(line)] \in AllTitles \cup {"test"} THEN 2
    ELSE IF \E i \in 1 .. 3 : Has(line, StateNames[i]) THEN 3
    ELSE IF \E t \in {"{error title}", "{error message}", "{error stack}"} : Has(line, t)
    THEN 4
    ELSE IF Has(line, " Check out job at https://saucelabs.com/tests/") THEN 5
    ELSE 0

\* the parts of a text's lines, without the lines that belong to none
PartsOf(text) ==
    LET L == Lines(text)
    IN  SelectSeq([i \in 1 .. Len(L) |-> PartOf(L[i])], LAMBDA k : k # 0)

NonDecreasing(ks) == \A i \in 1 .. (Len(ks) - 1) : ks[i] <= ks[i + 1]

NonZero(r) == SelectSeq(StateNames, LAMBDA n : r[n] # 0)

\* the text is one batch block of worker c: header, tree, summary, failures and job
\* link, in that order
IsBlockOf(text, c) ==
    LET ks == PartsOf(text)
    IN  /\ NonDecreasing(ks)
        /\ Count(text, " Session ID: ") = 1
        /\ Len(SelectSeq(ks, LAMBDA k : k = 3)) = Len(NonZero(results[c]))
        /\ Count(text, "{error title}") = Len(FailuresOf(failures, c))
        /\ Count(text, " Check out job at https://saucelabs.com/tests/")
              = (IF c = "0" THEN 1 ELSE 0)
        /\ Has(text, "test") =>
              \E i \in 1 .. Len(SuitesOf(c)) : SuitesOf(c)[i].tests # <<>>

\* the text is a real-time footer: lines of the summary and preface lines only
IsFooterOf(text, c) ==
    LET ks == PartsOf(text)
    IN  /\ \A i \in 1 .. Len(ks) : ks[i] = 3
        /\ Len(ks) = Len(NonZero(results[c]))

Ended == {c \in Cids : phase[c] = "ended"}

\* in batch mode nothing is written before a runner:end
C7_BatchSilentBeforeRunnerEnd ==
    ~realtime => \A i \in 1 .. Len(out) : out[i].ev \in {"runner:end", "end"}

\* each runner:end makes one write, in either mode
C7_OneWritePerRunnerEnd ==
    \A c \in Cids : Len(Written("runner:end", c)) = (IF c \in Ended THEN 1 ELSE 0)

\* in real-time mode runner:end writes the summary footer only
C7_RealtimeFooterOnly ==
    realtime => \A c \in Ended : IsFooterOf(Written("runner:end", c)[1].text, c)

\* C7 as stated: in batch mode no event before runner:end writes anything and each
\* runner:end writes exactly one block for its worker (header, tree, summary,
\* failures, job link); in real-time mode runner:end writes only the summary footer.
C7_EveryRunnerEndWritesBlock ==
    /\ C7_BatchSilentBeforeRunnerEnd
    /\ C7_OneWritePerRunnerEnd
    /\ C7_RealtimeFooterOnly
    /\ ~realtime => \A c \in Ended : IsBlockOf(Written("runner:end", c)[1].text, c)

\* what runner:end does write: the block for a worker that ran at least one suite,
\* one empty line for a worker that ran none (getSuiteResult returns '')
C7_RunnerEndWritesBlockOrEmptyLine ==
    /\ C7_BatchSilentBeforeRunnerEnd
    /\ C7_OneWritePerRunnerEnd
    /\ C7_RealtimeFooterOnly
    /\ ~realtime => \A c \in Ended :
          IF SuitesOf(c) # <<>>
          THEN IsBlockOf(Written("runner:end", c)[1].text, c)
          ELSE Written("runner:end", c)[1].text = <<NL>>

\* batch mode: worker 0 ended after a failing test, so its block has all five parts
C7_Witness ==
    /\ ~realtime
    /\ "0" \in Ended
    /\ PartsOf(Written("runner:end", "0")[1].text) = <<1, 1, 1, 1, 2, 2, 3, 4, 4, 4, 4, 5>>

\* C8: getSummary writes one line per non-zero count, in the order passing, pending,
\* failing, with the duration suffix on the first written line only; with all counts
\* zero it writes nothing.
C8_SummaryLines ==
    call.fn = "getSummary" =>
       LET L == Lines(call.ret)
           nz == NonZero(call.states)
       IN  /\ Len(L) = Len(nz)
           /\ call.ret # <<>> => call.ret[Len(call.ret)] = NL
           /\ \A i \in 1 .. Len(L) :
                 /\ \A k \in 1 .. 3 : Has(L[i], StateNames[k]) <=> StateNames[k] = nz[i]
                 /\ Has(L[i], ToString(call.states[nz[i]]))
                 /\ Count(L[i], " (") = (IF i = 1 THEN 1 ELSE 0)

\* counts {passing: 2, pending: 0, failing: 1}: two lines
C8_Witness ==
    /\ call.fn = "getSummary"
    /\ call.states = [passing |-> 2, pending |-> 0, failing |-> 1]
    /\ Len(Lines(call.ret)) = 2

\* the suite header lines of a text, each by its title
SuiteLines(text) ==
    LET L == Lines(text)
        ends == [i \in 1 .. Len(L) |-> IF L[i] = <<>> THEN "" ELSE L[i][Len(L[i])]]
    IN  SelectSeq(ends, LAMBDA t : t \in AllTitles)

IsBeforeAll(suite) == suite.uid[1] = BeforeAllMarker

\* C9: in the batch listing of a worker, the suite header lines are those of the
\* suites whose uid does not start with the before-all marker, in the order of the
\* suite tree; a suite whose uid starts with the marker has no header line.
C9_BeforeAllHasNoHeader ==
    ~realtime => \A c \in Ended :
        LET shown == SelectSeq(SuitesOf(c), LAMBDA su : ~IsBeforeAll(su))
        IN  SuiteLines(Written("runner:end", c)[1].text)
               = [i \in 1 .. Len(shown) |-> shown[i].title]

\* a before-all suite followed by an ordinary sibling, rendered in batch mode
C9_Witness ==
    /\ ~realtime
    /\ "0" \in Ended
    /\ Len(SuitesOf("0")) = 2
    /\ IsBeforeAll(SuitesOf("0")[1]) /\ ~IsBeforeAll(SuitesOf("0")[2])
    /\ SuitesOf("0")[2].parent = <<>>
    /\ SuiteLines(Written("runner:end", "0")[1].text) = <<"suite 2">>

\* the host is a string that contains "saucelabs.com"
HasSauce(host) ==
    /\ host # UNDEF
    /\ \E i \in 1 .. (Len(host) - 2) :
          host[i] = "saucelabs" /\ host[i + 1] = "." /\ host[i + 2] = "com"

\* C10: getJobLink returns the job-link line if and only if the host is present and
\* contains "saucelabs.com", and the empty string otherwise.
C10_JobLinkIffSauceHost ==
    call.fn = "getJobLink" =>
       /\ call.ret # <<>> <=> HasSauce(call.host)
       /\ call.ret # <<>> =>
             Count(call.ret, " Check out job at https://saucelabs.com/tests/") = 1

\* a host with the substring inside it
C10_Witness ==
    /\ call.fn = "getJobLink"
    /\ call.host = <<"ondemand", ".", "saucelabs", ".", "com", ":", "443">>
    /\ call.ret # <<>>

\* C11: getBrowserCombo renders every missing capability field as an empty substring:
\* the text 'undefined' never appears in what it returns.
C11_NeverRendersUndefined ==
    call.fn = "getBrowserCombo" => ~Has(call.ret, "undefined")

\* the test result lines written while handling worker c's test events
TestEntries(c) ==
    SelectSeq(out, LAMBDA e : e.cid = c /\ e.ev \in {"test:pass", "test:pending", "test:fail"})

\* C12: in real-time mode with a single worker, every test:pass, test:pending and
\* test:fail event prints exactly one test result line and its handler completes
\* without error, also when the event follows the suite:end of a nested suite.
C12_TestEventPrintsOneLine ==
    realtime /\ Started = {"0"} =>
       /\ lastError = "none"
       /\ Len(TestEntries("0"))
             = delivered["0"].pass + delivered["0"].pending + delivered["0"].fail
       /\ \A i \in 1 .. Len(TestEntries("0")) :
             Len(Lines(TestEntries("0")[i].text)) = 1

\* the text is a worker header: the rule, the session, the spec files and the browser
IsHeaderOf(text, c) ==
    /\ Count(text, " Session ID: ") = 1
    /\ Has(text, SessionOf(c))
    /\ Has(text, SpecsOf(c))
    /\ PartsOf(text) = <<1, 1, 1, 1>>

\* the text is the header of one suite: a preface line and the line with its title
IsSuiteHeaderOf(text, suite) ==
    /\ Count(text, " Session ID: ") = 0
    /\ SuiteLines(text) = <<suite.title>>
    /\ Len(Lines(text)) = 2

\* C13: in real-time mode with workers run one after another, a worker's header is
\* printed once, on its first suite:start and before the first suite header; every
\* suite:start prints its suite header, later ones nothing else; and the next
\* worker's runner:start arms the header again for that worker.
C13_HeaderOncePerWorker ==
    realtime => \A c \in Started :
       LET W == Written("suite:start", c)
           n == Len(SuitesOf(c))
       IN  IF n = 0 THEN W = <<>>
           ELSE /\ Len(W) = n + 1
                /\ IsHeaderOf(W[1].text, c)
                /\ \A i \in 1 .. n : IsSuiteHeaderOf(W[i + 1].text, SuitesOf(c)[i])

\* worker 0 ran a suite and ended, then worker 1 started its first suite: each has
\* its own header
C13_Witness ==
    /\ realtime
    /\ "0" \in Ended /\ phase["1"] = "running"
    /\ Len(Written("suite:start", "0")) = 2
    /\ Len(Written("suite:start", "1")) = 2
    /\ IsHeaderOf(Written("suite:start", "1")[1].text, "1")

\* C14: in real-time mode, once the events of two or more workers running at the same
\* time interleave, every event handler still runs to completion without an error.
C14_HandlersCompleteWhenInterleaved == realtime /\ overlap => lastError = "none"

\* the numbers of the fail glyphs of a text, in the order in which they stand in it
FailGlyphs(text) ==
    LET at == {i \in 1 .. (Len(text) - 2) : text[i] = "{fail}" /\ text[i + 2] = ")"}
    IN  SelectSeq([i \in 1 .. Len(text) |-> IF i - 1 \in at THEN text[i] ELSE ""],
                  LAMBDA t : t # "")

\* the failed tests of a worker's tree listing: those of the suites that are listed
RECURSIVE ListedFails(_)
ListedFails(suites) ==
    IF suites = <<>> THEN 0
    ELSE (IF IsBeforeAll(Head(suites)) THEN 0
          ELSE Len(SelectSeq(Head(suites).tests, LAMBDA t : t.state = "fail")))
         + ListedFails(Tail(suites))

\* C15: in batch mode the fail glyphs in the tree listing of every worker's block are
\* "1)", "2)", ..., "f)" in tree order, f being the number of failed tests listed,
\* whatever was rendered before and however the workers' events interleaved; the
\* error counter is reset by nothing but the rendering of a non-empty block.
C15_BatchGlyphsStartAtOne ==
    ~realtime =>
       /\ \A c \in Ended :
             FailGlyphs(Written("runner:end", c)[1].text)
                = [k \in 1 .. ListedFails(SuitesOf(c)) |-> ToString(k)]
       /\ (\A c \in Ended : SuitesOf(c) = <<>>) => errorCount = 0

\* two workers whose events interleaved, each with one failed test: both blocks
\* number it 1
C15_Witness ==
    /\ ~realtime /\ overlap
    /\ Ended = {"0", "1"}
    /\ FailGlyphs(Written("runner:end", "0")[1].text) = <<"1">>
    /\ FailGlyphs(Written("runner:end", "1")[1].text) = <<"1">>

\* what the test:fail events wrote, over all workers, in the order of the run
FailEntries == SelectSeq(out, LAMBDA e : e.ev = "test:fail")

\* C16: in real-time mode no event resets the error counter: the k-th test:fail event
\* of the whole run, counted over all workers, is printed with the glyph "k)".
C16_RealtimeNumberingContinues ==
    realtime =>
       /\ Len(FailEntries) = Len(failures)
       /\ \A k \in 1 .. Len(FailEntries) : FailGlyphs(FailEntries[k].text) = <<ToString(k)>>

\* the part of C16 that does not depend on every event being printed: the k-th
\* printed failure has the glyph "k)", over all workers
C16_PrintedFailuresCountOn ==
    realtime =>
       \A k \in 1 .. Len(FailEntries) : FailGlyphs(FailEntries[k].text) = <<ToString(k)>>

\* C17: the depth stored for a suite is 1 for a top-level suite and 1 + the stored
\* depth of its nearest enclosing suite otherwise, at its suite:start and after every
\* later event of the run.
C17_StoredDepthIsOnePlusParent ==
    \A c \in Started :
       /\ DOMAIN suiteIndents[c] = {SuitesOf(c)[i].uid : i \in 1 .. Len(SuitesOf(c))}
       /\ \A i \in 1 .. Len(SuitesOf(c)) :
             LET su == SuitesOf(c)[i]
             IN  suiteIndents[c][su.uid] =
                    IF su.parent = <<>> THEN 1
                    ELSE 1 + suiteIndents[c][su.parent[Len(su.parent)]]

\* a suite nested in another, both ended and a test reported since: stored at 1 and 2
C17_Witness ==
    /\ "0" \in Ended
    /\ Len(SuitesOf("0")) = 2
    /\ SuitesOf("0")[2].parent = <<SuitesOf("0")[1].uid>>
    /\ SuitesOf("0")[2].tests # <<>>
    /\ suiteIndents["0"][SuitesOf("0")[1].uid] = 1
    /\ suiteIndents["0"][SuitesOf("0")[2].uid] = 2

\* the test result lines of a text, each by the state its colour stands for
TestLineStates(text) ==
    LET L == Lines(text)
        st == [i \in 1 .. Len(L) |->
                 IF L[i] = <<>> \/ L[i][Len(L[i])] # "test" THEN ""
                 ELSE IF Has(L[i], "{green}") THEN "pass"
                 ELSE IF Has(L[i], "{pending}") THEN "pending"
                 ELSE IF Has(L[i], "{fail}") THEN "fail"
                 ELSE "?"]
    IN  SelectSeq(st, LAMBDA x : x # "")

\* the states of the reported tests of these suites, in tree order
RECURSIVE TestStatesOf(_)
TestStatesOf(suites) ==
    IF suites = <<>> THEN <<>>
    ELSE [i \in 1 .. Len(Head(suites).tests) |-> Head(suites).tests[i].state]
         \o TestStatesOf(Tail(suites))

\* C18 as stated: in the batch listing the tests of a suite marked with the
\* before-all prefix are still rendered as test result lines, like those of every
\* other suite; only the header line of the marked suite is left out.
C18_BeforeAllTestsStillRendered ==
    ~realtime => \A c \in Ended :
        TestLineStates(Written("runner:end", c)[1].text) = TestStatesOf(SuitesOf(c))

\* C18 as amended: a suite marked with the before-all prefix is left out of the batch
\* listing whole, its tests as well as its header line; the test result lines are
\* those of the other suites, in tree order.
C18_BeforeAllSuiteLeftOutWhole ==
    ~realtime => \A c \in Ended :
        TestLineStates(Written("runner:end", c)[1].text)
           = TestStatesOf(SelectSeq(SuitesOf(c), LAMBDA su : ~IsBeforeAll(su)))

\* a before-all suite with a failed test and an ordinary suite with a passed one: the
\* block lists the passed test only
C18_Witness ==
    /\ ~realtime
    /\ "0" \in Ended
    /\ Len(SuitesOf("0")) = 2
    /\ IsBeforeAll(SuitesOf("0")[1]) /\ ~IsBeforeAll(SuitesOf("0")[2])
    /\ TestStatesOf(SuitesOf("0")) = <<"fail", "pass">>
    /\ TestLineStates(Written("runner:end", "0")[1].text) = <<"pass">>

\* what the reporter keeps for worker c: its spec list, counters, running depth and
\* suite depths, or nothing before its runner:start
RecordOf(sp, res, ind, si, c) ==
    IF c \in DOMAIN sp THEN <<sp[c], res[c], ind[c], si[c]>> ELSE <<>>

\* C19: in both modes and under every interleaving, an event leaves the spec list,
\* counters, running depth and suite depths of every worker other than its own
\* unchanged; a runner:start initialises the record of its own worker only.
C19_OtherWorkersUntouched ==
    [][\A b \in Cids :
          RecordOf(specs', results', indents', suiteIndents', b)
             # RecordOf(specs, results, indents, suiteIndents, b)
          => <<phase[b], open[b], delivered[b]>>' # <<phase[b], open[b], delivered[b]>>]_vars

\* worker 1 has started while worker 0 is running with a suite open and a failed
\* test counted: worker 0's record is as its own events left it
C19_Witness ==
    /\ phase["0"] = "running" /\ phase["1"] = "running"
    /\ open["1"] # <<>>
    /\ RecordOf(specs, results, indents, suiteIndents, "0")
          = <<SpecsOf("0"), [passing |-> 0, pending |-> 0, failing |-> 1], 1,
              (UidOf("suite", 1) :> 1)>>

\* every line of the text starts with the preface of worker c, but for empty lines
\* and the rule that opens a header
PrefacedBy(text, c) ==
    \A i \in 1 .. Len(Lines(text)) :
       LET line == Lines(text)[i]
       IN  \/ line = <<>>
           \/ line = <<"------------------------------------------------------------------">>
           \/ <<Head(line)>> = PrefaceOf(c)

\* C20: in real-time mode with workers run one after another, every line printed
\* between a worker's runner:start and its runner:end starts with the preface of that
\* worker, never with 'undefined' or the preceding worker's preface, also for a worker
\* that reaches runner:end without a suite:start.
C20_LinesCarryOwnPreface ==
    realtime => \A i \in 1 .. Len(out) :
        out[i].ev # "end" => PrefacedBy(out[i].text, out[i].cid)

====
